---- MODULE Spec2Model ----
(***************************************************************************)
(* The RemovePodsViolatingInterPodAffinity descheduler plugin:             *)
(* argument validation, New, and the eviction-selection loop of Deschedule *)
(* (pkg/framework/plugins/removepodsviolatinginterpodaffinity).            *)
(*                                                                         *)
(* The collaborators the loop consults (the affinity oracle                *)
(* CheckPodAffinityViolation and the evictor's Filter, PreEvictionFilter   *)
(* and Evict) are interfaces to the plugin: every answer they can give is  *)
(* drawn when the call is made, and each call is appended to the trace     *)
(* `calls`, which is what the properties are stated on.                    *)
(***************************************************************************)
EXTENDS Integers, Sequences, FiniteSets, TLC

\* ------------------------------------------------------------------ bounds

MaxPods == 3
MaxNodes == 3

\* Pods and nodes of the cluster.  A pod or node is identified by its number
\* (its name); the informer lists the pods of one node in ascending number.
Pods == 1 .. MaxPods
ClusterNodes == 1 .. MaxNodes

\* The namespaces of pod_affinity's argument tests.
Namespaces == {"default", "kube-system"}

\* QoS tiers, by rank: 0 best-effort, 1 burstable, 2 guaranteed.
QoSTiers == {0, 1, 2}

\* ------------------------------------------------------- eviction outcomes

NoErr == "nil"
EvictionNodeLimitError == "EvictionNodeLimitError"
EvictionTotalLimitError == "EvictionTotalLimitError"
EvictionNamespaceLimitError == "EvictionNamespaceLimitError"
OtherError == "error"

\* What Evict can return: nil, one of the typed budget errors, any other error.
EvictOutcomes ==
    {NoErr, EvictionNodeLimitError, EvictionTotalLimitError,
     EvictionNamespaceLimitError, OtherError}

\* The errors that report an exhausted eviction budget.
BudgetErrors ==
    {EvictionNodeLimitError, EvictionTotalLimitError, EvictionNamespaceLimitError}

\* ------------------------------------------------------------------- state

VARIABLES
    args,              \* RemovePodsViolatingInterPodAffinityArgs
    allPods,           \* the cluster's pods: Pods -> [nodeName, namespace, priority, qos, labelled]
    nodes,             \* Deschedule's argument: the node list
    evictor,           \* the set of outcomes the configured evictor can return
    pc,                \* where the plugin's life cycle stands
    ctxCancelled,      \* whether the invocation context is cancelled
    listErr,           \* what ListPodsOnNodes returned: "none" (not called), "nil", "error"
    podsInANamespace,  \* GroupByNamespace(pods)
    podsOnANode,       \* GroupByNodeName(pods)
    nodeMap,           \* CreateNodeMap(nodes)
    node_idx,          \* how many elements of `nodes` the range loop has taken
    pods,              \* the inner loop's slice: podsOnANode[node.Name], sorted
    i,                 \* the inner loop's index (0-based, as in the source)
    status,            \* Deschedule's result: "none" (not returned), "nil", "err"
    calls              \* every collaborator call so far, in order

vars ==
    <<args, allPods, nodes, evictor, pc, ctxCancelled, listErr, podsInANamespace,
      podsOnANode, nodeMap, node_idx, pods, i, status, calls>>

\* ----------------------------------------------------------------- helpers

Range(s) == {s[k] : k \in DOMAIN s}

\* A Go map lookup: the zero value (a nil slice) for a missing key.
MapGet(m, k) == IF k \in DOMAIN m THEN m[k] ELSE <<>>

RECURSIVE SeqOfSet(_)
\* The elements of a set of numbers as a sequence, ascending.
SeqOfSet(S) ==
    IF S = {} THEN <<>>
    ELSE LET m == CHOOSE x \in S : \A y \in S : x <= y
         IN  <<m>> \o SeqOfSet(S \ {m})

\* One entry of the trace: `op` called on `pod` answered `ok` (a predicate's
\* answer; for Evict, whether it returned nil) and `err` (Evict's error).
Call(op, p, ok, err) == [op |-> op, pod |-> p, ok |-> ok, err |-> err]

\* ------------------------------------------------ arguments, validation, New

NoArgs == [include |-> {}, exclude |-> {}, labelSelector |-> "nil"]

\* The argument values of TestValidateRemovePodsViolatingInterPodAffinityArgs.
ArgValues ==
    [include : {{}, {"default"}},
     exclude : {{}, {"kube-system"}},
     labelSelector : {"nil", "valid", "invalid"}]

\* A validator that looks at the label selector only.
ValidateArgsNoNamespaceCheck(a) ==
    IF a.labelSelector = "invalid" THEN "error" ELSE "nil"

\* ValidateRemovePodsViolatingInterPodAffinityArgs: an error when both an
\* include and an exclude list are set, or when the label selector is invalid.
ValidateRemovePodsViolatingInterPodAffinityArgs(a) ==
    IF a.include # {} /\ a.exclude # {} THEN "error"
    ELSE IF a.labelSelector = "invalid" THEN "error"
    ELSE "nil"

\* BuildFilterFunc's error: the label selector does not convert.
BuildFilterFuncErr(a) ==
    IF a.labelSelector = "invalid" THEN "error" ELSE "nil"

\* New building the filter without its WithoutNamespaces option.
NewFilterOptionsNoExclude(a) ==
    [include |-> a.include, exclude |-> {}, labelSelector |-> a.labelSelector]

\* New, lines 52-61: the options the pod filter is built from are the
\* arguments' included namespaces, excluded namespaces and label selector.
NewFilterOptions(a) ==
    [include |-> a.include, exclude |-> a.exclude, labelSelector |-> a.labelSelector]

\* The pod filter New builds: WithNamespaces, WithoutNamespaces, WithLabelSelector.
podFilter(a, p) ==
    /\ (a.include # {} => allPods[p].namespace \in a.include)
    /\ (a.exclude # {} => allPods[p].namespace \notin a.exclude)
    /\ (a.labelSelector = "valid" => allPods[p].labelled)

\* ------------------------------------------------- listing, grouping, order

\* GetPodsAssignedToNode with the filter: the node's pods, in the informer's order.
ListPodsOnANode(n, a) ==
    SeqOfSet({p \in Pods : allPods[p].nodeName = n /\ podFilter(a, p)})

RECURSIVE ListPodsOnNodes(_, _)
\* The pods of each node of the list, appended node after node.
ListPodsOnNodes(ns, a) ==
    IF ns = <<>> THEN <<>>
    ELSE ListPodsOnANode(Head(ns), a) \o ListPodsOnNodes(Tail(ns), a)

\* GroupByNamespace: namespace -> its pods, in list order; no key without a pod.
GroupByNamespace(ps) ==
    [ns \in {allPods[p].namespace : p \in Range(ps)} |->
        SelectSeq(ps, LAMBDA p : allPods[p].namespace = ns)]

\* A node grouping that assigns to the node's key where it should append: the
\* bucket keeps the node's last pod only.
GroupByNodeNameOverwriting(ps) ==
    [n \in {allPods[p].nodeName : p \in Range(ps)} |->
        LET bucket == SelectSeq(ps, LAMBDA p : allPods[p].nodeName = n)
        IN  <<bucket[Len(bucket)]>>]

\* GroupByNodeName: node name -> its pods, in list order; no key without a pod.
GroupByNodeName(ps) ==
    [n \in {allPods[p].nodeName : p \in Range(ps)} |->
        SelectSeq(ps, LAMBDA p : allPods[p].nodeName = n)]

\* CreateNodeMap: node name -> node.
CreateNodeMap(ns) == [n \in Range(ns) |-> n]

\* The orderer's key: priority, then QoS tier.
LessOrEqual(p, q) ==
    \/ allPods[p].priority < allPods[q].priority
    \/ /\ allPods[p].priority = allPods[q].priority
       /\ allPods[p].qos <= allPods[q].qos

\* Ascending by priority, ties by QoS tier, full ties in input order: the pod
\* at s[k] goes to the place after the pods that come before it, which are the
\* pods below it in the order and the pods equal to it that precede it in s.
SortPodsBasedOnPriorityLowToHigh(s) ==
    LET before(j, k) ==
            \/ ~LessOrEqual(s[k], s[j])
            \/ LessOrEqual(s[j], s[k]) /\ j < k
        place == [k \in DOMAIN s |-> Cardinality({j \in DOMAIN s : before(j, k)}) + 1]
    IN  [r \in DOMAIN s |-> s[CHOOSE k \in DOMAIN s : place[k] = r]]

\* ---------------------------------------------------- the loop's decisions

\* Line 99 without its test of the oracle's answer.
IsViolationAlways(v) == TRUE

\* Line 99 with its test negated.
IsViolationInverted(v) == ~v

\* Line 99: the pod is a candidate when the oracle reports a violation.
IsViolation(v) == v

\* Line 100 without its test of Filter's answer.
FilterAdmitsAlways(f) == TRUE

\* Line 100, left operand: the evictor's Filter admits the pod.
FilterAdmits(f) == f

\* Line 100 without its test of PreEvictionFilter's answer.
PreEvictionAdmitsAlways(pe) == TRUE

\* Line 100, right operand: the evictor's PreEvictionFilter admits the pod.
PreEvictionAdmits(pe) == pe

\* The switch without its EvictionTotalLimitError case.
EvictSwitchTotalAsDefault(err) ==
    CASE err = EvictionNodeLimitError -> "continue loop"
      [] OTHER -> "default"

\* The switch without its EvictionNodeLimitError case.
EvictSwitchNodeAsDefault(err) ==
    CASE err = EvictionTotalLimitError -> "return"
      [] OTHER -> "default"

\* The switch leaving the node on every error but the total limit, and on nil.
EvictSwitchDefaultAsContinue(err) ==
    CASE err = EvictionTotalLimitError -> "return"
      [] OTHER -> "continue loop"

\* The switch returning on the node limit as it does on the total limit.
EvictSwitchNodeAsReturn(err) ==
    CASE err \in {EvictionNodeLimitError, EvictionTotalLimitError} -> "return"
      [] OTHER -> "default"

\* The switch leaving the node on the namespace limit as it does on the node limit.
EvictSwitchNamespaceAsContinue(err) ==
    CASE err \in {EvictionNodeLimitError, EvictionNamespaceLimitError} -> "continue loop"
      [] err = EvictionTotalLimitError -> "return"
      [] OTHER -> "default"

\* Lines 102-109: the type switch on Evict's error.
EvictSwitch(err) ==
    CASE err = EvictionNodeLimitError -> "continue loop"
      [] err = EvictionTotalLimitError -> "return"
      [] OTHER -> "default"

\* An inner loop that does not advance.
NextIndexStuck(k) == k

\* Line 98: i++.
NextIndex(k) == k + 1

\* Line 81 with the listing error dropped.
ListFailedIgnored(err) == FALSE

\* Line 81: err != nil.
ListFailed(err) == err # "nil"

\* Line 106 returning a status with an error.
TotalLimitStatusErr == "err"

\* Line 106: return nil.
TotalLimitStatus == "nil"

\* ------------------------------------------------------------ initial states

\* A pod of TestInterPodAffinity on node n: namespace default, best effort,
\* the priority the test sets (SetPodPriority).
TestPod(n, prio) ==
    [nodeName |-> n, namespace |-> "default", priority |-> prio, qos |-> 0,
     labelled |-> TRUE]

\* The pods' priorities: all equal, so that the orderer keeps the listing
\* order, or falling with the pod's number, so that it reverses each node's pods.
PriorityProfiles == {[p \in Pods |-> 0], [p \in Pods |-> MaxPods - p]}

\* Pods are numbered in listing order: a later pod is on the same or a later node.
PodLayouts ==
    {f \in [Pods -> ClusterNodes] : \A p, q \in Pods : p < q => f[p] <= f[q]}

\* The node list names each node once.  Nodes are numbered in the order of the
\* list; the cluster's nodes past the list's end are not passed to Deschedule.
NodeLists == {[j \in 1 .. k |-> j] : k \in 0 .. MaxNodes}

InitRun ==
    /\ pc = "config"
    /\ ctxCancelled = FALSE
    /\ listErr = "none"
    /\ podsInANamespace = <<>>
    /\ podsOnANode = <<>>
    /\ nodeMap = <<>>
    /\ node_idx = 0
    /\ pods = <<>>
    /\ i = 0
    /\ status = "none"
    /\ calls = <<>>

\* Any pod layout and node list, default arguments, an evictor that can return
\* every outcome.
Init ==
    /\ args = NoArgs
    /\ \E f \in PodLayouts, prio \in PriorityProfiles :
        allPods = [p \in Pods |-> TestPod(f[p], prio[p])]
    /\ nodes \in NodeLists
    /\ evictor = EvictOutcomes
    /\ InitRun

\* ------------------------------------------------------------------ actions

program == <<args, allPods, nodes, evictor>>
groupings == <<podsInANamespace, podsOnANode, nodeMap>>
loopvars == <<node_idx, pods, i>>

\* The framework validates the plugin's arguments when the policy is loaded.
ValidateArgs ==
    /\ pc = "config"
    /\ pc' = IF ValidateRemovePodsViolatingInterPodAffinityArgs(args) = "nil"
             THEN "validated" ELSE "configError"
    /\ UNCHANGED <<program, ctxCancelled, listErr, groupings, loopvars, status, calls>>

\* New (lines 46-72): build the pod filter; an error when it cannot be built.
New ==
    /\ pc = "validated"
    /\ pc' = IF BuildFilterFuncErr(args) # "nil" THEN "newError" ELSE "ready"
    /\ UNCHANGED <<program, ctxCancelled, listErr, groupings, loopvars, status, calls>>

\* The caller cancels the invocation context, before or during the run.
Cancel ==
    /\ pc \in {"ready", "outer", "inner"}
    /\ ~ctxCancelled
    /\ ctxCancelled' = TRUE
    /\ UNCHANGED <<program, pc, listErr, groupings, loopvars, status, calls>>

\* Deschedule, lines 80-89: list the pods, return the error or build the groupings.
DescheduleList ==
    /\ pc = "ready"
    /\ \E err \in {"nil", "error"} :
        LET listed == IF err = "nil"
                      THEN ListPodsOnNodes(nodes, NewFilterOptions(args))
                      ELSE <<>>
        IN  /\ listErr' = err
            /\ IF ListFailed(err)
               THEN /\ status' = "err"
                    /\ pc' = "done"
                    /\ UNCHANGED groupings
               ELSE /\ podsInANamespace' = GroupByNamespace(listed)
                    /\ podsOnANode' = GroupByNodeName(listed)
                    /\ nodeMap' = CreateNodeMap(nodes)
                    /\ pc' = "outer"
                    /\ UNCHANGED status
    /\ UNCHANGED <<program, ctxCancelled, loopvars, calls>>

\* Line 92 ranging over the node list from its last element to its first.
RangeNodeReversed(ns, idx) == ns[Len(ns) - idx]

\* Line 92, `for _, node := range nodes`: the node of the iteration that
\* follows idx completed ones.
RangeNode(ns, idx) == ns[idx + 1]

\* Lines 92-97 without line 96: the node's pods are scanned as they were listed.
ProcessNodeUnsorted ==
    /\ pc = "outer"
    /\ node_idx < Len(nodes)
    /\ LET node == RangeNode(nodes, node_idx)
           unsorted == MapGet(podsOnANode, node)
       IN  /\ node_idx' = node_idx + 1
           /\ pods' = unsorted
           /\ podsOnANode' = podsOnANode
           /\ i' = 0
           /\ pc' = IF 0 < Len(unsorted) THEN "inner" ELSE "outer"
    /\ UNCHANGED <<program, ctxCancelled, listErr, podsInANamespace, nodeMap, status, calls>>

\* Lines 92-97: the range loop takes the next node, fetches and sorts its pods.
ProcessNode ==
    /\ pc = "outer"
    /\ node_idx < Len(nodes)
    /\ LET node == RangeNode(nodes, node_idx)
           sorted == SortPodsBasedOnPriorityLowToHigh(MapGet(podsOnANode, node))
       IN  /\ node_idx' = node_idx + 1
           /\ pods' = sorted
           /\ podsOnANode' = IF node \in DOMAIN podsOnANode
                             THEN [podsOnANode EXCEPT ![node] = sorted]
                             ELSE podsOnANode
           /\ i' = 0
           /\ pc' = IF 0 < Len(sorted) THEN "inner" ELSE "outer"
    /\ UNCHANGED <<program, ctxCancelled, listErr, podsInANamespace, nodeMap, status, calls>>

\* Line 114: the range loop is over.
ReturnNil ==
    /\ pc = "outer"
    /\ node_idx = Len(nodes)
    /\ status' = "nil"
    /\ pc' = "done"
    /\ UNCHANGED <<program, ctxCancelled, listErr, groupings, loopvars, calls>>

\* The inner loop's step after pods[i] is dealt with: i++ and the test i < totalPods.
NextPod ==
    /\ i' = NextIndex(i)
    /\ pc' = IF NextIndex(i) < Len(pods) THEN "inner" ELSE "outer"
    /\ UNCHANGED <<node_idx, pods, status>>

\* Lines 99, 111: the oracle reports no violation.
PodNoViolation ==
    /\ pc = "inner"
    /\ \E v \in BOOLEAN :
        /\ ~IsViolation(v)
        /\ calls' = calls \o <<Call("Oracle", pods[i + 1], v, NoErr)>>
    /\ NextPod
    /\ UNCHANGED <<program, ctxCancelled, listErr, groupings>>

\* Lines 99-100, 110: a violation, and Filter rejects the pod.
PodFilterRejects ==
    /\ pc = "inner"
    /\ \E v, f \in BOOLEAN :
        /\ IsViolation(v)
        /\ ~FilterAdmits(f)
        /\ calls' = calls \o <<Call("Oracle", pods[i + 1], v, NoErr),
                               Call("Filter", pods[i + 1], f, NoErr)>>
    /\ NextPod
    /\ UNCHANGED <<program, ctxCancelled, listErr, groupings>>

\* Lines 99-100, 110: a violation, Filter admits and PreEvictionFilter rejects.
PodPreEvictionFilterRejects ==
    /\ pc = "inner"
    /\ \E v, f, pe \in BOOLEAN :
        /\ IsViolation(v)
        /\ FilterAdmits(f)
        /\ ~PreEvictionAdmits(pe)
        /\ calls' = calls \o <<Call("Oracle", pods[i + 1], v, NoErr),
                               Call("Filter", pods[i + 1], f, NoErr),
                               Call("PreEvictionFilter", pods[i + 1], pe, NoErr)>>
    /\ NextPod
    /\ UNCHANGED <<program, ctxCancelled, listErr, groupings>>

\* Lines 99-109 with a namespace grouping that follows the evictions: a pod
\* whose eviction succeeded is taken out of its namespace's bucket.
PodEvictUpdatingGrouping ==
    /\ pc = "inner"
    /\ \E v, f, pe \in BOOLEAN, err \in evictor :
        /\ IsViolation(v)
        /\ FilterAdmits(f)
        /\ PreEvictionAdmits(pe)
        /\ calls' = calls \o <<Call("Oracle", pods[i + 1], v, NoErr),
                               Call("Filter", pods[i + 1], f, NoErr),
                               Call("PreEvictionFilter", pods[i + 1], pe, NoErr),
                               Call("Evict", pods[i + 1], err = NoErr, err)>>
        /\ podsInANamespace' =
                IF err = NoErr
                THEN [ns \in DOMAIN podsInANamespace |->
                        SelectSeq(podsInANamespace[ns], LAMBDA q : q # pods[i + 1])]
                ELSE podsInANamespace
        /\ CASE EvictSwitch(err) = "continue loop" ->
                    /\ pc' = "outer"
                    /\ UNCHANGED <<loopvars, status>>
             [] EvictSwitch(err) = "return" ->
                    /\ status' = TotalLimitStatus
                    /\ pc' = "done"
                    /\ UNCHANGED loopvars
             [] OTHER -> NextPod
    /\ UNCHANGED <<program, ctxCancelled, listErr, podsOnANode, nodeMap>>

\* Lines 99-109: a violation, both filters admit, Evict is called and its
\* error decides how the loops go on.
PodEvict ==
    /\ pc = "inner"
    /\ \E v, f, pe \in BOOLEAN, err \in evictor :
        /\ IsViolation(v)
        /\ FilterAdmits(f)
        /\ PreEvictionAdmits(pe)
        /\ calls' = calls \o <<Call("Oracle", pods[i + 1], v, NoErr),
                               Call("Filter", pods[i + 1], f, NoErr),
                               Call("PreEvictionFilter", pods[i + 1], pe, NoErr),
                               Call("Evict", pods[i + 1], err = NoErr, err)>>
        /\ CASE EvictSwitch(err) = "continue loop" ->
                    /\ pc' = "outer"
                    /\ UNCHANGED <<loopvars, status>>
             [] EvictSwitch(err) = "return" ->
                    /\ status' = TotalLimitStatus
                    /\ pc' = "done"
                    /\ UNCHANGED loopvars
             [] OTHER -> NextPod
    /\ UNCHANGED <<program, ctxCancelled, listErr, groupings>>

Next ==
    \/ ValidateArgs
    \/ New
    \/ DescheduleList
    \/ ProcessNode
    \/ ReturnNil
    \/ PodNoViolation
    \/ PodFilterRejects
    \/ PodPreEvictionFilterRejects
    \/ PodEvict

Spec == Init /\ [][Next]_vars

\* The plugin's life cycle is over: the arguments were refused, New failed, or
\* Deschedule returned.
Terminated == pc \in {"configError", "newError", "done"}

\* An upper bound on the steps the life cycle has left: one per stage before
\* the loop, and in the loop one per node still to take (with room for its
\* pods) and one per pod of the current node still to scan.
StepsLeft ==
    LET perNode == MaxPods + 2
        nodesLeft == (Len(nodes) - node_idx) * perNode + 1
    IN  CASE pc = "config" -> MaxNodes * perNode + 4
          [] pc = "validated" -> MaxNodes * perNode + 3
          [] pc = "ready" -> MaxNodes * perNode + 2
          [] pc = "outer" -> nodesLeft
          [] pc = "inner" -> nodesLeft + (Len(pods) - i)
          [] OTHER -> 0

\* The runs of Spec with a caller that may cancel the context at any time.
NextCancel == Next \/ Cancel

SpecCancel == Init /\ [][NextCancel]_vars

\* The argument tests' values against a cluster whose pods differ in namespace
\* and label and are laid out as the plugin's test lays them out, with either
\* priority profile; an evictor without budgets whose evictions succeed.
PodProfiles ==
    {[namespace |-> "default", labelled |-> TRUE],
     [namespace |-> "default", labelled |-> FALSE],
     [namespace |-> "kube-system", labelled |-> TRUE]}

\* The smaller of two numbers.
Min(a, b) == IF a <= b THEN a ELSE b

\* The pods on the nodes as TestInterPodAffinity runs: p1 .. p5 on n1, n2, n3,
\* n4, n4, that is one pod per node in listing order and the pods past the last
\* node on the last node.  With as many nodes as pods that rule has no node with
\* two pods, so the layout is taken both ways: each pod on its own node (the
\* test's first pods), and the last two pods on one node (the test's last
\* pods, p4 and p5 on n4).  The two are the same layout, the test's, when the
\* cluster has one pod more than it has nodes.
TestLayouts ==
    {[p \in Pods |-> Min(p, MaxNodes)],
     [p \in Pods |-> IF MaxPods > 1 THEN Min(Min(p, MaxPods - 1), MaxNodes) ELSE 1]}

InitArgs ==
    /\ args \in ArgValues
    /\ \E pr \in [Pods -> PodProfiles], prio \in PriorityProfiles, f \in TestLayouts :
        allPods = [p \in Pods |->
                    [nodeName |-> f[p], namespace |-> pr[p].namespace,
                     priority |-> prio[p], qos |-> 0, labelled |-> pr[p].labelled]]
    /\ nodes \in NodeLists
    /\ evictor = {NoErr}
    /\ InitRun

SpecArgs == InitArgs /\ [][Next]_vars

\* The priorities TestInterPodAffinity sets on its pods.
TestPriorities == {50, 100}

\* One listed node that holds every pod, each pod with any of the test's
\* priorities and any QoS tier; default arguments, evictions that succeed.
InitSort ==
    /\ args = NoArgs
    /\ \E prio \in [Pods -> TestPriorities], tier \in [Pods -> QoSTiers] :
        allPods = [p \in Pods |->
                    [nodeName |-> 1, namespace |-> "default",
                     priority |-> prio[p], qos |-> tier[p], labelled |-> TRUE]]
    /\ nodes = <<1>>
    /\ evictor = {NoErr}
    /\ InitRun

SpecSort == InitSort /\ [][Next]_vars

\* ------------------------------------------------------ reading the trace

EvictIdx == {k \in DOMAIN calls : calls[k].op = "Evict"}
OracleIdx == {k \in DOMAIN calls : calls[k].op = "Oracle"}

\* The position of a node of the list in the list.
NodePos(n) == CHOOSE k \in DOMAIN nodes : nodes[k] = n

\* The position in the list of the node of the pod of the trace's k-th call.
CallNodePos(k) == NodePos(allPods[calls[k].pod].nodeName)

\* The pods Deschedule lists: on a node of the list, passing the pod filter.
ListedPods == Range(ListPodsOnNodes(nodes, args))

\* The pods the named call was made on with the answer `ok`.
PodsAnswered(op, ok) ==
    {calls[k].pod : k \in {j \in DOMAIN calls : calls[j].op = op /\ calls[j].ok = ok}}

\* The pods the oracle was asked about.
EvaluatedPods == {calls[k].pod : k \in OracleIdx}

\* The pods Evict was called on.
AttemptedPods == {calls[k].pod : k \in EvictIdx}

\* The pods the oracle flagged and both filters admitted.
AdmittedViolators ==
    PodsAnswered("Oracle", TRUE) \cap PodsAnswered("Filter", TRUE)
        \cap PodsAnswered("PreEvictionFilter", TRUE)

\* podEvictor.TotalEvicted(): the evictions that succeeded.
TotalEvicted == Cardinality({k \in EvictIdx : calls[k].err = NoErr})

RECURSIVE ScanFrom(_)
\* The pods of the list's nodes from position k on, node after node, each
\* node's pods in the orderer's order: the order of an uninterrupted scan.
ScanFrom(k) ==
    IF k > Len(nodes) THEN <<>>
    ELSE SortPodsBasedOnPriorityLowToHigh(ListPodsOnANode(nodes[k], args))
            \o ScanFrom(k + 1)

ScanOrder == ScanFrom(1)

\* The position of a listed pod in the scan order.
ScanPos(p) == CHOOSE m \in DOMAIN ScanOrder : ScanOrder[m] = p

\* ------------------------------------------------------------- properties

\* C1: once an Evict call returns EvictionTotalLimitError nothing follows it:
\* it is the last Evict call and the last call of the run, the run is over,
\* and the range loop has taken no node after the pod's; so when it is the
\* run's first Evict call the run made exactly one eviction attempt.
C1_TotalLimitEndsRun ==
    \A k \in EvictIdx :
        calls[k].err = EvictionTotalLimitError =>
            /\ \A j \in EvictIdx : j <= k
            /\ k = Len(calls)
            /\ pc = "done"
            /\ node_idx = CallNodePos(k)
            /\ \A j \in DOMAIN calls : CallNodePos(j) <= CallNodePos(k)
            /\ ((\A j \in EvictIdx : k <= j) => Cardinality(EvictIdx) = 1)

\* C1 witness: two nodes listed, the run's first Evict call, made on the first
\* node, returned the total limit; the run is over after one attempt and a
\* listed pod of the second node was never looked at.
C1_Witness ==
    /\ pc = "done"
    /\ Len(nodes) >= 2
    /\ Cardinality(EvictIdx) = 1
    /\ \E k \in EvictIdx :
        /\ calls[k].err = EvictionTotalLimitError
        /\ CallNodePos(k) = 1
    /\ \E p \in ListedPods : allPods[p].nodeName = nodes[2] /\ p \notin EvaluatedPods

\* C2: after an Evict call for a pod of node N returns EvictionNodeLimitError
\* every later call (Evict included) is for a pod of a node after N in the
\* list; and the run goes on to those nodes: unless a total limit ends it, a
\* finished run has evaluated every listed pod except those that followed, on
\* their own node, a pod whose eviction hit the node limit, and every pod it
\* found violating and admitted got its Evict call.
C2_NodeLimitSkipsNode ==
    /\ \A k \in EvictIdx :
        calls[k].err = EvictionNodeLimitError =>
            \A j \in DOMAIN calls : j > k => CallNodePos(j) > CallNodePos(k)
    /\ AdmittedViolators \subseteq AttemptedPods
    /\ (/\ pc = "done"
        /\ status = "nil"
        /\ \A k \in EvictIdx : calls[k].err # EvictionTotalLimitError)
       => \A p \in ListedPods :
            \/ p \in EvaluatedPods
            \/ \E k \in EvictIdx :
                /\ calls[k].err = EvictionNodeLimitError
                /\ allPods[calls[k].pod].nodeName = allPods[p].nodeName
                /\ ScanPos(calls[k].pod) < ScanPos(p)

\* C2 witness: nodes A, B, C with one pod each, all three violating and
\* admitted; Evict succeeded on A, hit the node limit on B, succeeded on C:
\* two evictions.
C2_Witness ==
    /\ pc = "done"
    /\ Len(nodes) = 3
    /\ \A p \in 1 .. 3 : allPods[p].nodeName = nodes[p]
    /\ Len(calls) = 12
    /\ calls[4] = Call("Evict", 1, TRUE, NoErr)
    /\ calls[8] = Call("Evict", 2, FALSE, EvictionNodeLimitError)
    /\ calls[12] = Call("Evict", 3, TRUE, NoErr)
    /\ TotalEvicted = 2

\* C3: every Evict call is for a pod the oracle answered true for, earlier in
\* the run; so the eviction attempts are never more than the pods flagged, and
\* none at all when the oracle flagged no pod.
C3_EvictOnlyViolators ==
    /\ \A k \in EvictIdx :
        \E j \in OracleIdx : j < k /\ calls[j].pod = calls[k].pod /\ calls[j].ok
    /\ Cardinality(EvictIdx) <= Cardinality(PodsAnswered("Oracle", TRUE))
    /\ (PodsAnswered("Oracle", TRUE) = {} => EvictIdx = {})

\* C3 witness: a finished run in which the oracle answered false for one pod,
\* which got no gate or Evict call, and true for another, which was evicted.
C3_Witness ==
    /\ pc = "done"
    /\ \E p \in PodsAnswered("Oracle", FALSE) :
        \A k \in DOMAIN calls : calls[k].pod = p => calls[k].op = "Oracle"
    /\ \E p \in PodsAnswered("Oracle", TRUE) : p \in AttemptedPods

\* C4: no pod gets two Evict calls or two oracle calls, and no call of any
\* kind is made on a pod after its Evict call, whatever that call returned.
C4_AtMostOneAttempt ==
    /\ \A j, k \in EvictIdx : calls[j].pod = calls[k].pod => j = k
    /\ \A j, k \in OracleIdx : calls[j].pod = calls[k].pod => j = k
    /\ \A k \in EvictIdx : \A j \in DOMAIN calls : j > k => calls[j].pod # calls[k].pod

\* C4 witness: a finished run with one Evict call that succeeded and one that
\* failed, on two pods of one node, and a pod evaluated after them.
C4_Witness ==
    /\ pc = "done"
    /\ \E j, k \in EvictIdx :
        /\ j < k
        /\ calls[j].err = NoErr
        /\ calls[k].err = OtherError
        /\ allPods[calls[j].pod].nodeName = allPods[calls[k].pod].nodeName
        /\ \E m \in OracleIdx : m > k

\* C5: an Evict call that returns nil or an error that is not the node or the
\* total limit is followed by the evaluation of the next pod of the scan order
\* (the next pod of the same node, or the first pod of the next node that has
\* one): the next call, if the pod is not the last, is the oracle's on that
\* pod, and the run does not end before it.
C5_OtherOutcomesContinue ==
    LET order == ScanOrder
        pos(p) == CHOOSE m \in DOMAIN order : order[m] = p
    IN  \A k \in EvictIdx :
            (/\ calls[k].err \notin {EvictionNodeLimitError, EvictionTotalLimitError}
             /\ pos(calls[k].pod) < Len(order))
            => /\ pc # "done"  \/  k < Len(calls)
               /\ k < Len(calls) =>
                    calls[k + 1] = Call("Oracle", order[pos(calls[k].pod) + 1],
                                        calls[k + 1].ok, NoErr)

\* C5 witness: Evict failed with an ordinary error on the first pod of a node
\* and succeeded on the second, and a pod of a later node was evaluated after.
C5_Witness ==
    \E j, k \in EvictIdx :
        /\ j < k
        /\ calls[j].err = OtherError
        /\ calls[k].err = NoErr
        /\ CallNodePos(j) = CallNodePos(k)
        /\ \E m \in OracleIdx : m > k /\ CallNodePos(m) > CallNodePos(k)

\* C6: once the context is cancelled no further collaborator call is made: no
\* pod is evaluated or evicted.
C6_CancelStopsEvaluation == [][ctxCancelled => calls' = calls]_vars

\* C7: when ListPodsOnNodes fails Deschedule has returned a status with an
\* error, no collaborator was called and the range loop took no node.
C7_ListErrorAborts ==
    listErr = "error" =>
        /\ status = "err"
        /\ pc = "done"
        /\ calls = <<>>
        /\ node_idx = 0

\* C7 witness: the listing failed for a node list whose nodes hold pods.
C7_Witness ==
    /\ listErr = "error"
    /\ status = "err"
    /\ ListedPods # {}

\* C8: a finished run returned a status with an error exactly when listing
\* failed; every other run, also after budget or other Evict errors, returned nil.
C8_OnlyListErrorFails ==
    /\ status = "err" => listErr = "error"
    /\ pc = "done" =>
        /\ status \in {"nil", "err"}
        /\ (status = "err" <=> listErr = "error")
        /\ (EvictIdx # {} => status = "nil")

\* C8 witness: a run that saw an ordinary Evict error and a node limit and was
\* ended by the total limit returned nil.
C8_Witness ==
    /\ pc = "done"
    /\ status = "nil"
    /\ \E j, k, m \in EvictIdx :
        /\ calls[j].err = OtherError
        /\ calls[k].err = EvictionNodeLimitError
        /\ calls[m].err = EvictionTotalLimitError

\* C9: arguments with both an include and an exclude list, or with an invalid
\* label selector, are rejected by validation, and then the plugin is never
\* built and never run: no pod is listed and no collaborator called; arguments
\* with only an include list, or only a valid label selector, are accepted.
C9_ConfigErrorBeforeLoop ==
    /\ ((args.include # {} /\ args.exclude # {}) \/ args.labelSelector = "invalid")
        => /\ ValidateRemovePodsViolatingInterPodAffinityArgs(args) = "error"
           /\ pc \in {"config", "configError"}
           /\ listErr = "none"
           /\ status = "none"
           /\ calls = <<>>
    /\ (/\ args.exclude = {}
        /\ args.labelSelector # "invalid"
        /\ (args.include = {}) # (args.labelSelector = "nil"))
        => /\ ValidateRemovePodsViolatingInterPodAffinityArgs(args) = "nil"
           /\ pc \notin {"configError", "newError"}

\* C9 witness: arguments with both lists were validated and rejected, with
\* nodes and pods that a run would have listed.
C9_Witness ==
    /\ pc = "configError"
    /\ args.include # {}
    /\ args.exclude # {}
    /\ args.labelSelector = "nil"
    /\ Len(nodes) > 0

\* C10 as stated: a finished run in which no Evict call returned a budget
\* error has evicted exactly the listed pods that the oracle flagged and both
\* filters admitted: TotalEvicted is their number.
C10_EvictsAllAdmittedViolators ==
    (/\ pc = "done"
     /\ status = "nil"
     /\ \A k \in EvictIdx : calls[k].err \notin BudgetErrors)
    => TotalEvicted = Cardinality(AdmittedViolators)

\* C10 amended: a finished run in which no Evict call returned a budget error
\* has evaluated every listed pod and called Evict on exactly the pods that the
\* oracle flagged and both filters admitted; TotalEvicted is the number of
\* those whose Evict call returned nil, so it is their number when no Evict
\* call returned an error; a pod the oracle did not flag is never evicted.
C10_AttemptsAllAdmittedViolators ==
    /\ AttemptedPods \cap PodsAnswered("Oracle", FALSE) = {}
    /\ (/\ pc = "done"
        /\ status = "nil"
        /\ \A k \in EvictIdx : calls[k].err \notin BudgetErrors)
       => /\ EvaluatedPods = ListedPods
          /\ AttemptedPods = AdmittedViolators
          /\ TotalEvicted =
                Cardinality({p \in AdmittedViolators :
                                \E k \in EvictIdx : calls[k].pod = p /\ calls[k].err = NoErr})
          /\ ((\A k \in EvictIdx : calls[k].err = NoErr)
                => TotalEvicted = Cardinality(AdmittedViolators))

\* C10 witness: as in TestInterPodAffinity, a finished run over all the nodes
\* in which the pods of the first nodes did not violate and the two pods of
\* the last node did, were admitted and evicted: TotalEvicted is 2.
C10_Witness ==
    /\ pc = "done"
    /\ Len(nodes) = MaxNodes
    /\ \A k \in EvictIdx : calls[k].err = NoErr
    /\ PodsAnswered("Oracle", FALSE) # {}
    /\ Cardinality(AdmittedViolators) = 2
    /\ \A p \in AdmittedViolators : allPods[p].nodeName = nodes[Len(nodes)]
    /\ TotalEvicted = 2

\* C11: every Evict call is on a pod that Filter and PreEvictionFilter both
\* admitted earlier in the run; a pod that either of them rejected gets no
\* Evict call, and the rejection is followed by the evaluation of the next pod
\* of the same node: while the node's ordered pods have one after the rejected
\* pod, the next call is the oracle's on that pod, and the run does not end
\* before it.
C11_GateRejectionSkipsPod ==
    /\ \A k \in EvictIdx :
        /\ \E f \in 1 .. k : calls[f] = Call("Filter", calls[k].pod, TRUE, NoErr)
        /\ \E pe \in 1 .. k :
                calls[pe] = Call("PreEvictionFilter", calls[k].pod, TRUE, NoErr)
    /\ \A k \in DOMAIN calls :
        calls[k].op \in {"Filter", "PreEvictionFilter"} /\ ~calls[k].ok =>
            LET onNode == podsOnANode[allPods[calls[k].pod].nodeName]
                at == CHOOSE m \in DOMAIN onNode : onNode[m] = calls[k].pod
            IN  /\ \A j \in EvictIdx : calls[j].pod # calls[k].pod
                /\ at < Len(onNode) =>
                    /\ pc # "done"  \/  k < Len(calls)
                    /\ k < Len(calls) =>
                        calls[k + 1] = Call("Oracle", onNode[at + 1], calls[k + 1].ok, NoErr)

\* C11 witness: on one node Filter rejected the first pod, PreEvictionFilter
\* the second, and the third was evicted; the rejected pods got no Evict call.
C11_Witness ==
    /\ pc = "done"
    /\ \E p, q, r \in Pods :
        /\ allPods[p].nodeName = allPods[q].nodeName
        /\ allPods[q].nodeName = allPods[r].nodeName
        /\ calls = <<Call("Oracle", p, TRUE, NoErr), Call("Filter", p, FALSE, NoErr),
                     Call("Oracle", q, TRUE, NoErr), Call("Filter", q, TRUE, NoErr),
                     Call("PreEvictionFilter", q, FALSE, NoErr),
                     Call("Oracle", r, TRUE, NoErr), Call("Filter", r, TRUE, NoErr),
                     Call("PreEvictionFilter", r, TRUE, NoErr),
                     Call("Evict", r, TRUE, NoErr)>>

\* C12: the nodes are processed one after the other in the order of the input
\* list: along the run's calls (oracle, Filter, PreEvictionFilter, Evict) the
\* list position of the called pod's node never decreases from one call to the
\* next, so every call for a pod of an earlier node precedes every call for a
\* pod of a later node, and no call is for a node the loop has not reached.
\* Each call is complete, with its answer, before the next is made.
C12_NodesInListOrder ==
    LET at == [k \in DOMAIN calls |-> CallNodePos(k)]
    IN  \A k \in DOMAIN calls :
            /\ k > 1 => at[k - 1] <= at[k]
            /\ at[k] \in 1 .. node_idx
            /\ calls[k].op = "Evict" => calls[k].err \in EvictOutcomes

\* C12 witness: a finished run over three nodes that called Evict on a pod of
\* each, in the order of the list.
C12_Witness ==
    /\ pc = "done"
    /\ Len(nodes) = MaxNodes
    /\ \E a, b, c \in EvictIdx :
        /\ a < b
        /\ b < c
        /\ CallNodePos(a) < CallNodePos(b)
        /\ CallNodePos(b) < CallNodePos(c)

\* C13: within a node the pods are visited from the lowest priority to the
\* highest, pods of equal priority from the lowest QoS tier to the highest, and
\* pods equal in both in the order they were listed in: of two calls on pods of
\* one node, the earlier call's pod is not above the later call's in
\* (priority, QoS tier), and where the two are equal in both, the earlier
\* call's pod is the one listed first. This holds of Evict calls in particular.
C13_VisitedLowToHigh ==
    \A j, k \in DOMAIN calls :
        /\ j < k
        /\ allPods[calls[j].pod].nodeName = allPods[calls[k].pod].nodeName
        => /\ LessOrEqual(calls[j].pod, calls[k].pod)
           /\ LessOrEqual(calls[k].pod, calls[j].pod) => calls[j].pod <= calls[k].pod

\* C13 witness: three pods of one node were evicted one after the other; the
\* first was listed after the second and precedes it by its lower QoS tier at
\* equal priority, the second and third are equal in both and in listing order.
C13_Witness ==
    \E a, b, c \in EvictIdx :
        /\ a < b
        /\ b < c
        /\ allPods[calls[a].pod].priority = allPods[calls[b].pod].priority
        /\ allPods[calls[a].pod].qos < allPods[calls[b].pod].qos
        /\ calls[a].pod > calls[b].pod
        /\ allPods[calls[b].pod].priority = allPods[calls[c].pod].priority
        /\ allPods[calls[b].pod].qos = allPods[calls[c].pod].qos
        /\ calls[b].pod < calls[c].pod

\* C14: every run terminates, and a run whose listing succeeded ends in one of
\* two ways only: the range loop has taken every node of the input list, or the
\* run's last call is an Evict that reported the total limit. Termination: each
\* step lowers a natural-number bound on the steps left, and a step is possible
\* in every state in which the life cycle is not over. An Evict that reported
\* the total limit is the last call of its run, so the run ends at the first
\* such outcome.
C14_RunTerminates ==
    /\ [][StepsLeft' < StepsLeft]_vars
    /\ [](StepsLeft \in Nat)
    /\ [](Terminated \/ ENABLED Next)
    /\ [](pc = "done" /\ listErr = "nil" =>
            \/ node_idx = Len(nodes)
            \/ /\ calls # <<>>
               /\ calls[Len(calls)] =
                    Call("Evict", calls[Len(calls)].pod, FALSE, EvictionTotalLimitError))
    /\ [](\A k \in EvictIdx :
            calls[k].err = EvictionTotalLimitError => k = Len(calls) /\ pc = "done")

\* C14 witness: a run over the whole list has ended after its last node; on the
\* way Evict reported the node limit, the namespace limit and an untyped error,
\* never the total limit.
C14_Witness ==
    /\ pc = "done"
    /\ Len(nodes) = MaxNodes
    /\ node_idx = Len(nodes)
    /\ {calls[k].err : k \in EvictIdx} =
            {EvictionNodeLimitError, EvictionNamespaceLimitError, OtherError}
    /\ CallNodePos(Len(calls)) = MaxNodes

\* C15: once the pods are listed, the namespace grouping and the node grouping
\* each partition the listed pods: a listed pod is at exactly one place of
\* exactly one bucket, the bucket of its own namespace (of its own node), and
\* the buckets hold listed pods only.
C15_GroupingsPartitionListedPods ==
    listErr = "nil" =>
        LET listed == ListedPods
            places(m, p) ==
                {<<key, k>> \in (DOMAIN m) \X (1 .. MaxPods) :
                    k \in DOMAIN m[key] /\ m[key][k] = p}
        IN  /\ \A p \in listed :
                /\ \E k \in 1 .. MaxPods :
                    places(podsInANamespace, p) = {<<allPods[p].namespace, k>>}
                /\ \E k \in 1 .. MaxPods :
                    places(podsOnANode, p) = {<<allPods[p].nodeName, k>>}
            /\ \A ns \in DOMAIN podsInANamespace : Range(podsInANamespace[ns]) \subseteq listed
            /\ \A n \in DOMAIN podsOnANode : Range(podsOnANode[n]) \subseteq listed

\* C15 witness: a finished run that listed pods of both namespaces and of
\* several nodes, two of them in one namespace bucket and two of them in one
\* node bucket, which the orderer has put in an order other than the listing's.
C15_Witness ==
    /\ pc = "done"
    /\ listErr = "nil"
    /\ Cardinality(DOMAIN podsInANamespace) = 2
    /\ Cardinality(DOMAIN podsOnANode) > 1
    /\ \E ns \in DOMAIN podsInANamespace : Len(podsInANamespace[ns]) > 1
    /\ \E n \in DOMAIN podsOnANode :
        /\ Len(podsOnANode[n]) > 1
        /\ podsOnANode[n][1] > podsOnANode[n][2]
        /\ podsOnANode[n] # GroupByNodeName(ListPodsOnNodes(nodes, args))[n]

\* C16: the oracle's context is a snapshot taken before the first node is
\* processed: once the pods are listed, no step changes the namespace grouping
\* or the node map, and a pod whose eviction succeeded is still in its
\* namespace's bucket of the grouping that the later oracle calls are given, so
\* what the oracle is given for a pod is the same whatever was evicted before.
C16_OracleContextIsSnapshot ==
    /\ [][listErr = "nil" =>
            /\ podsInANamespace' = podsInANamespace
            /\ nodeMap' = nodeMap]_vars
    /\ [](\A k \in EvictIdx :
            calls[k].ok =>
                /\ allPods[calls[k].pod].namespace \in DOMAIN podsInANamespace
                /\ calls[k].pod \in Range(podsInANamespace[allPods[calls[k].pod].namespace]))
    /\ [](listErr = "nil" => nodeMap = CreateNodeMap(nodes))

\* C16 witness: a pod was evicted, the oracle was then asked about another pod
\* of the same namespace, and the evicted pod is still in the namespace's bucket.
C16_Witness ==
    \E k \in EvictIdx, j \in OracleIdx :
        /\ calls[k].ok
        /\ k < j
        /\ allPods[calls[j].pod].namespace = allPods[calls[k].pod].namespace
        /\ calls[k].pod \in Range(podsInANamespace[allPods[calls[k].pod].namespace])
        /\ calls[j].pod \in Range(podsInANamespace[allPods[calls[k].pod].namespace])

\* C17: an Evict that reports the namespace limit is handled as one that
\* reports an ordinary error: the switch takes its default branch, and the loop
\* goes on scanning the same node: while the node's ordered pods have one after
\* the pod, the next call is the oracle's on that pod and the run does not end
\* before it.
C17_NamespaceLimitIsOrdinaryError ==
    \A k \in EvictIdx :
        calls[k].err = EvictionNamespaceLimitError =>
            LET onNode == podsOnANode[allPods[calls[k].pod].nodeName]
                at == CHOOSE m \in DOMAIN onNode : onNode[m] = calls[k].pod
            IN  /\ EvictSwitch(calls[k].err) = EvictSwitch(OtherError)
                /\ at < Len(onNode) =>
                    /\ pc # "done"  \/  k < Len(calls)
                    /\ k < Len(calls) =>
                        calls[k + 1] = Call("Oracle", onNode[at + 1], calls[k + 1].ok, NoErr)

\* C17 witness: Evict reported the namespace limit for a pod, and Evict was then
\* called on a later pod of the same node and the same namespace.
C17_Witness ==
    \E k, j \in EvictIdx :
        /\ k < j
        /\ calls[k].err = EvictionNamespaceLimitError
        /\ allPods[calls[j].pod].nodeName = allPods[calls[k].pod].nodeName
        /\ allPods[calls[j].pod].namespace = allPods[calls[k].pod].namespace

\* C18: for each pod the calls are made in a fixed order and stop at the first
\* negative answer: the oracle's call is the pod's first; a Filter call directly
\* follows the oracle's call on the same pod that reported a violation; a
\* PreEvictionFilter call directly follows the Filter call on the same pod that
\* admitted it; an Evict call directly follows the PreEvictionFilter call on the
\* same pod that admitted it.
C18_CallsShortCircuit ==
    \A k \in DOMAIN calls :
        LET follows(op) == k > 1 /\ calls[k - 1] = Call(op, calls[k].pod, TRUE, NoErr)
        IN  CASE calls[k].op = "Oracle" ->
                    \A j \in 1 .. k - 1 : calls[j].pod # calls[k].pod
              [] calls[k].op = "Filter" -> follows("Oracle")
              [] calls[k].op = "PreEvictionFilter" -> follows("Filter")
              [] calls[k].op = "Evict" -> follows("PreEvictionFilter")

\* C18 witness: a run in which the oracle cleared one pod, whose only call it
\* is, Filter rejected a second pod after the oracle's verdict, and a third pod
\* went through all four calls.
C18_Witness ==
    \E p, q, r \in Pods :
        /\ {k \in DOMAIN calls : calls[k].pod = p} \subseteq OracleIdx
        /\ p \in PodsAnswered("Oracle", FALSE)
        /\ q \in PodsAnswered("Filter", FALSE)
        /\ q \notin PodsAnswered("PreEvictionFilter", TRUE) \cup
                    PodsAnswered("PreEvictionFilter", FALSE)
        /\ r \in PodsAnswered("PreEvictionFilter", TRUE)
        /\ r \in AttemptedPods

\* C19: every call of the run (oracle, Filter, PreEvictionFilter, Evict) is on
\* a pod that is on a node of the input list and that the plugin's pod filter
\* passes: its namespace is among the included namespaces when any are set and
\* not among the excluded ones, and it carries the label when a label selector
\* is set. A pod on an unlisted node or kept out by the filter gets no call.
C19_OnlyListedFilteredPods ==
    \A k \in DOMAIN calls :
        LET pod == allPods[calls[k].pod]
        IN  /\ \E j \in DOMAIN nodes : nodes[j] = pod.nodeName
            /\ args.include # {} => pod.namespace \in args.include
            /\ args.exclude # {} => pod.namespace \notin args.exclude
            /\ args.labelSelector = "valid" => pod.labelled

\* C19 witness: a finished run that evicted a pod while a pod of a listed node
\* was kept out by the excluded namespaces and another pod was on an unlisted
\* node; neither of the two got a call.
C19_Witness ==
    /\ pc = "done"
    /\ AttemptedPods # {}
    /\ \E p, q \in Pods \ EvaluatedPods :
        /\ allPods[p].nodeName \in Range(nodes)
        /\ allPods[p].namespace \in args.exclude
        /\ allPods[q].nodeName \notin Range(nodes)

====
